---- MODULE Spec2Model ----
(***************************************************************************)
(* mycloud: concurrent cloud detection (main.go).                          *)
(*                                                                         *)
(* main() builds the list of cloud detectors, starts one goroutine per     *)
(* detector, waits on a sync.WaitGroup for all of them, then scans the     *)
(* list in order and reports the first detector whose isMyCloud is set,    *)
(* optionally fetching one metadata key from it.                           *)
(*                                                                         *)
(* The network, the filesystem and the mdata-get command are the           *)
(* environment: every request draws its response from a small set.        *)
(***************************************************************************)
EXTENDS Integers, Sequences, FiniteSets, TLC

VARIABLES
    name,          \* BaseCloud.name of each detector of cdList
    isMyCloud,     \* BaseCloud.isMyCloud of each detector
    supportsKey,   \* BaseCloud.supportsKey of each detector
    metadata,      \* SimpleUrlBasedCloud.metadata (a *string) of each detector
    globalOpts,    \* the CommandOptions read from the flags
    wg,            \* the WaitGroup counter
    mainPc,        \* where main() is
    idx,           \* the index of main's current range loop
    taskPc,        \* where each detection goroutine is
    stdout,        \* the lines printed with fmt.Printf
    stderrLines,   \* how many lines logOutput wrote to os.Stderr
    exitCode,      \* the status given to os.Exit, NotExited before
    httpRequests,  \* how many times client.Do was called
    statCalls,     \* how many times os.Stat was called
    execCalls,     \* how many times exec.Command(...).Output was called
    keyCalls,      \* the detectors getKey was called on, in call order
    keyResult,     \* what the getKey call returned
    writes,        \* how many times each detector's isMyCloud was assigned
    firstDone,     \* the detector whose detection finished first, 0 before
    response       \* what the environment answered to the one detection SpecDetect runs

vars == <<name, isMyCloud, supportsKey, metadata, globalOpts, wg, mainPc, idx,
          taskPc, stdout, stderrLines, exitCode, httpRequests, statCalls,
          execCalls, keyCalls, keyResult, writes, firstDone, response>>

(***************************************************************************)
(* Go values                                                               *)
(***************************************************************************)

\* a nil pointer and a pointer to v
Nil == [nil |-> TRUE]
Ptr(v) == [nil |-> FALSE, v |-> v]

\* a nil error
NoError == "nil"

NotExited == 0 - 1

(***************************************************************************)
(* JSON bodies.  A body is the sequence of its lexemes; Render is what a   *)
(* metadata server sends for a list of members, json.Decoder reads it back.*)
(***************************************************************************)

Punct(c) == [t |-> "punct", v |-> c]
Str(s) == [t |-> "string", v |-> s]
Num(n) == [t |-> "number", v |-> n]   \* n is the numeral, as text

Member(k, tok) == [key |-> k, val |-> tok]

RECURSIVE RenderMembers(_)
RenderMembers(fields) ==
    IF fields = <<>> THEN <<>>
    ELSE <<Str(Head(fields).key), Punct(":"), Head(fields).val>>
         \o (IF Len(fields) > 1 THEN <<Punct(",")>> ELSE <<>>)
         \o RenderMembers(Tail(fields))

Render(fields) == <<Punct("{")>> \o RenderMembers(fields) \o <<Punct("}")>>

\* a body cut off before its closing brace
Truncated(fields) == <<Punct("{")>> \o RenderMembers(fields)

\* where the JSON value starting at lexeme p ends (the position after it), 0 when
\* the scanner meets a syntax error or the end of the input first
RECURSIVE ValueEnd(_, _), MembersEnd(_, _)
ValueEnd(toks, p) ==
    IF p > Len(toks) THEN 0
    ELSE IF toks[p].t \in {"string", "number"} THEN p + 1
    ELSE IF toks[p] = Punct("{")
         THEN IF p + 1 <= Len(toks) /\ toks[p + 1] = Punct("}")
              THEN p + 2
              ELSE MembersEnd(toks, p + 1)
    ELSE 0

MembersEnd(toks, p) ==
    IF p + 1 > Len(toks) \/ toks[p].t # "string" \/ toks[p + 1] # Punct(":")
    THEN 0
    ELSE LET e == ValueEnd(toks, p + 2)
         IN  IF e = 0 \/ e > Len(toks) THEN 0
             ELSE IF toks[e] = Punct(",") THEN MembersEnd(toks, e + 1)
             ELSE IF toks[e] = Punct("}") THEN e + 1
             ELSE 0

\* a Go map[string]string: a function on the keys it holds
EmptyMap == [k \in {} |-> ""]
MapSet(m, k, v) == [x \in (DOMAIN m) \cup {k} |-> IF x = k THEN v ELSE m[x]]
\* m[k]: the zero value "" for a key the map does not hold (also for a nil map)
MapGet(m, k) == IF k \in DOMAIN m THEN m[k] ELSE ""

\* the members of a syntactically valid object stored into m, in order; a value
\* that is no string leaves the zero value under its key
RECURSIVE StoreMembers(_, _, _)
StoreMembers(toks, p, m) ==
    LET e == ValueEnd(toks, p + 2)
        v == IF toks[p + 2].t = "string" THEN toks[p + 2].v ELSE ""
        m2 == MapSet(m, toks[p].v, v)
    IN  IF toks[e] = Punct(",") THEN StoreMembers(toks, e + 1, m2) ELSE m2

\* var m map[string]string; dec.Decode(&m): the first JSON value of the input is
\* scanned whole, then stored; the error is dropped, m stays nil on a syntax
\* error or when the value is no object
Decode(toks) ==
    IF ValueEnd(toks, 1) = 0 THEN EmptyMap
    ELSE IF toks[1] # Punct("{") THEN EmptyMap
    ELSE IF toks[2] = Punct("}") THEN EmptyMap
    ELSE StoreMembers(toks, 2, EmptyMap)

(***************************************************************************)
(* The environment's answers                                               *)
(***************************************************************************)

\* what client.Do and ioutil.ReadAll meet for one request
HttpResponse(netErr, status, flavor, body, readErr) ==
    [netErr |-> netErr, status |-> status, flavor |-> flavor, body |-> body,
     readErr |-> readErr]

\* unreachable host, refused connection or the one second timeout
NetworkError == HttpResponse(TRUE, 0, "", Nil, FALSE)
NotFound(flavor) == HttpResponse(FALSE, 404, flavor, Nil, FALSE)
Ok(flavor, body) == HttpResponse(FALSE, 200, flavor, Ptr(body), FALSE)
\* a 200 whose body cannot be read to its end
BrokenBody(flavor) == HttpResponse(FALSE, 200, flavor, Nil, TRUE)

\* the values of the Metadata-Flavor response header ("" when it is not sent)
Flavors == {"Google", "google", ""}

\* the bodies the OpenStack meta_data.json endpoint may send
OpenStackBodies ==
    { Render(<<Member("id", Str("abc")), Member("key1", Str("value1"))>>),
      Truncated(<<Member("key1", Str("value1"))>>) }

\* the values of the --key flag
Keys == {"", "key1"}

\* the answers to the key request
KeyResponses ==
    {NetworkError, NotFound("Google"), BrokenBody("Google"),
     Ok("Google", "ami-deadbeef"), Ok("Google", "")}

\* what exec.Command(cmd, key).Output() returns: the output and whether it failed
ExecResults == {[out |-> "", failed |-> TRUE], [out |-> "value1\n", failed |-> FALSE]}

(***************************************************************************)
(* getUrl                                                                  *)
(***************************************************************************)

\* getUrl(url, headers): one GET; the body, the response and the error
getUrl(r) ==
    IF r.netErr
    THEN [body |-> Nil, hasResp |-> FALSE, flavor |-> "", err |-> "client.Do", http |-> 1]
    ELSE IF r.status # 200
    THEN [body |-> Nil, hasResp |-> TRUE, flavor |-> r.flavor,
          err |-> "An error getting the url", http |-> 1]
    ELSE IF r.readErr
    THEN [body |-> Nil, hasResp |-> TRUE, flavor |-> r.flavor, err |-> "ReadAll", http |-> 1]
    ELSE [body |-> Ptr(r.body.v), hasResp |-> TRUE, flavor |-> r.flavor,
          err |-> NoError, http |-> 1]

(***************************************************************************)
(* The detectors                                                           *)
(***************************************************************************)

\* the zero value of a detector struct with the fields its constructor sets
NewAWSCloud == [type |-> "AWSCloud", name |-> "AWS", supportsKey |-> TRUE]
NewGCECloud == [type |-> "GCECloud", name |-> "GCE", supportsKey |-> TRUE]
NewAzureCloud == [type |-> "AzureCloud", name |-> "Azure", supportsKey |-> FALSE]
NewOpenStackCloud ==
    [type |-> "OpenStackCloud", name |-> "OpenStack", supportsKey |-> TRUE]
NewDigitalOceanCloud ==
    [type |-> "DigitalOceanCloud", name |-> "Digital Ocean", supportsKey |-> TRUE]
NewJoyentCloud == [type |-> "JoyentCloud", name |-> "Joyent", supportsKey |-> TRUE]

\* setupClouds(): the detectors in the order main scans them
cdList ==
    <<NewAWSCloud, NewGCECloud, NewAzureCloud, NewOpenStackCloud,
      NewDigitalOceanCloud, NewJoyentCloud>>

Clouds == 1 .. Len(cdList)

TypeOf(i) == cdList[i].type

\* the detectors that embed SimpleUrlBasedCloud
UrlBased == {i \in Clouds : TypeOf(i) \in {"AWSCloud", "OpenStackCloud", "DigitalOceanCloud"}}

\* the detector of a type
IndexOf(type) == CHOOSE i \in Clouds : TypeOf(i) = type

\* the answers to the presence request of detector i
DetectResponses(i) ==
    CASE TypeOf(i) = "AWSCloud" ->
            {NetworkError, NotFound(""), BrokenBody(""), Ok("", "i-0abc")}
      [] TypeOf(i) = "GCECloud" ->
            {NetworkError, NotFound("Google"), Ok("Google", "root"), Ok("", "root")}
      [] TypeOf(i) = "OpenStackCloud" ->
            {NetworkError, NotFound(""), BrokenBody("")}
            \cup {Ok("", b) : b \in OpenStackBodies}
      [] TypeOf(i) = "DigitalOceanCloud" ->
            {NetworkError, NotFound(""), BrokenBody(""), Ok("", "4242")}
      [] OTHER -> {NetworkError}

\* whether os.Stat finds the marker file of detector i
DetectFiles(i) ==
    IF TypeOf(i) \in {"AzureCloud", "JoyentCloud"} THEN BOOLEAN ELSE {FALSE}

\* what one detection leaves in the detector's fields, and the I/O it did
\* (assigned: how many assignments to isMyCloud it made)
Detected(present, supports, md, http, stat, assigned) ==
    [isMyCloud |-> present, supportsKey |-> supports, metadata |-> md,
     http |-> http, stat |-> stat, assigned |-> assigned]

\* any response counts as presence, whatever its status
SimpleUrlBasedCloud_detectAnyResponse(i, r) ==
    LET got == getUrl(r)
    IN  Detected(got.hasResp, supportsKey[i], got.body, got.http, 0, 1)

\* presence decided by the status alone, whether or not the body could be read
SimpleUrlBasedCloud_detectByStatus(i, r) ==
    LET got == getUrl(r)
    IN  Detected(got.hasResp /\ r.status = 200, supportsKey[i], got.body, got.http, 0, 1)

\* (c *SimpleUrlBasedCloud) detectEffectiveCloud()
SimpleUrlBasedCloud_detectEffectiveCloud(i, r) ==
    LET got == getUrl(r)
    IN  Detected(got.err = NoError, supportsKey[i], got.body, got.http, 0, 1)

\* without the header comparison
GCECloud_detectStatusOnly(i, r) ==
    LET got == getUrl(r)
    IN  Detected(got.err = NoError, TRUE, metadata[i], got.http, 0, 1)

\* (c *GCECloud) detectEffectiveCloud()
GCECloud_detectEffectiveCloud(i, r) ==
    LET got == getUrl(r)
    IN  Detected(IF got.err # NoError THEN FALSE ELSE got.flavor = "Google",
                 TRUE, metadata[i], got.http, 0, 1)

\* (c *AzureCloud) detectEffectiveCloud(); exists: os.Stat finds ovf-env.xml
AzureCloud_detectEffectiveCloud(i, exists) ==
    Detected(exists, TRUE, metadata[i], 0, 1, IF exists THEN 2 ELSE 1)

\* (c *JoyentCloud) detectEffectiveCloud(); exists: os.Stat finds mdata-get
JoyentCloud_detectEffectiveCloud(i, exists) ==
    Detected(exists, TRUE, metadata[i], 0, 1, IF exists THEN 2 ELSE 1)

\* cd.detectEffectiveCloud(): the method of the detector's type
Detect(i, r, exists) ==
    CASE TypeOf(i) = "GCECloud" -> GCECloud_detectEffectiveCloud(i, r)
      [] TypeOf(i) = "AzureCloud" -> AzureCloud_detectEffectiveCloud(i, exists)
      [] TypeOf(i) = "JoyentCloud" -> JoyentCloud_detectEffectiveCloud(i, exists)
      [] OTHER -> SimpleUrlBasedCloud_detectEffectiveCloud(i, r)

\* what getKey returns and the I/O it did; panic: it dereferenced a nil pointer
KeyReturn(val, err, http, exec) ==
    [val |-> val, err |-> err, http |-> http, exec |-> exec, panic |-> FALSE]
KeyPanic == [val |-> Nil, err |-> NoError, http |-> 0, exec |-> 0, panic |-> TRUE]
NoKeyCall == [val |-> Nil, err |-> NoError, http |-> 0, exec |-> 0, panic |-> FALSE]

\* no answer recorded
NoResponse == [of |-> 0]

\* (c *BaseCloud) getKey(key)
BaseCloud_getKey(key) == KeyReturn(Nil, "Cloud does not support keys", 0, 0)

\* (c *SimpleUrlBasedCloud) getKey(key)
SimpleUrlBasedCloud_getKey(key, r) ==
    LET got == getUrl(r) IN KeyReturn(got.body, got.err, got.http, 0)

\* without the test for the empty value
OpenStackCloud_getKeyNoTest(md, key) ==
    IF md.nil THEN KeyPanic
    ELSE KeyReturn(Ptr(MapGet(Decode(md.v), key)), NoError, 0, 0)

\* (c *OpenStackCloud) getKey(key)
OpenStackCloud_getKey(md, key) ==
    IF md.nil THEN KeyPanic
    ELSE LET m == Decode(md.v)
             v == MapGet(m, key)
         IN  IF v = "" THEN KeyReturn(Nil, "No such key", 0, 0)
             ELSE KeyReturn(Ptr(v), NoError, 0, 0)

\* (c *GCECloud) getKey(key)
GCECloud_getKey(key, r) ==
    LET got == getUrl(r) IN KeyReturn(got.body, got.err, got.http, 0)

\* (c *JoyentCloud) getKey(key)
JoyentCloud_getKey(key, x) ==
    IF x.failed THEN KeyReturn(Nil, "exec", 0, 1)
    ELSE KeyReturn(Ptr(x.out), NoError, 0, 1)

\* AzureCloud embedding SimpleUrlBasedCloud: its getKey is the GET
getKeyAzureByUrl(i, key, r, x) ==
    CASE TypeOf(i) = "OpenStackCloud" -> OpenStackCloud_getKey(metadata[i], key)
      [] TypeOf(i) = "GCECloud" -> GCECloud_getKey(key, r)
      [] TypeOf(i) = "JoyentCloud" -> JoyentCloud_getKey(key, x)
      [] OTHER -> SimpleUrlBasedCloud_getKey(key, r)

\* cd.getKey(key): the method of the detector's type
getKey(i, key, r, x) ==
    CASE TypeOf(i) = "AzureCloud" -> BaseCloud_getKey(key)
      [] TypeOf(i) = "OpenStackCloud" -> OpenStackCloud_getKey(metadata[i], key)
      [] TypeOf(i) = "GCECloud" -> GCECloud_getKey(key, r)
      [] TypeOf(i) = "JoyentCloud" -> JoyentCloud_getKey(key, x)
      [] OTHER -> SimpleUrlBasedCloud_getKey(key, r)

\* logOutput(message, ...): the lines it adds to os.Stderr
logOutput == IF globalOpts.verbose THEN 1 ELSE 0

(***************************************************************************)
(* main and the detection goroutines                                       *)
(***************************************************************************)

\* the process has neither called os.Exit nor died
Running == exitCode = NotExited

\* after setupClouds() and setupOptions(cdList)
Init ==
    /\ name = [i \in Clouds |-> cdList[i].name]
    /\ isMyCloud = [i \in Clouds |-> FALSE]
    /\ supportsKey = [i \in Clouds |-> cdList[i].supportsKey]
    /\ metadata = [i \in Clouds |-> Nil]
    /\ globalOpts \in [key : Keys, verbose : BOOLEAN]
    /\ wg = 0
    /\ mainPc = "add"
    /\ idx = 1
    /\ taskPc = [i \in Clouds |-> "unlaunched"]
    /\ stdout = <<>>
    /\ stderrLines = 0
    /\ exitCode = NotExited
    /\ httpRequests = 0
    /\ statCalls = 0
    /\ execCalls = 0
    /\ keyCalls = <<>>
    /\ keyResult = NoKeyCall
    /\ writes = [i \in Clouds |-> 0]
    /\ firstDone = 0
    /\ response = NoResponse

\* wg.Add(len(cdList))
WgAdd ==
    /\ Running /\ mainPc = "add"
    /\ wg' = wg + Len(cdList)
    /\ mainPc' = "launch"
    /\ idx' = 1
    /\ UNCHANGED <<response, name, isMyCloud, supportsKey, metadata, globalOpts, taskPc,
                   stdout, stderrLines, exitCode, httpRequests, statCalls,
                   execCalls, keyCalls, keyResult, writes, firstDone>>

\* logOutput writing to os.Stdout instead of os.Stderr
LaunchLogToStdout ==
    /\ Running /\ mainPc = "launch"
    /\ stdout' = IF globalOpts.verbose THEN Append(stdout, "Cloud candidate") ELSE stdout
    /\ taskPc' = [taskPc EXCEPT ![idx] = "running"]
    /\ idx' = idx + 1
    /\ mainPc' = IF idx = Len(cdList) THEN "wait" ELSE "launch"
    /\ UNCHANGED <<response, name, isMyCloud, supportsKey, metadata, globalOpts, wg,
                   stderrLines, exitCode, httpRequests, statCalls, execCalls, keyCalls,
                   keyResult, writes, firstDone>>

\* one round of the first loop: logOutput(...); go detectEffectiveCloud(wg, cd)
Launch ==
    /\ Running /\ mainPc = "launch"
    /\ stderrLines' = stderrLines + logOutput
    /\ taskPc' = [taskPc EXCEPT ![idx] = "running"]
    /\ idx' = idx + 1
    /\ mainPc' = IF idx = Len(cdList) THEN "wait" ELSE "launch"
    /\ UNCHANGED <<response, name, isMyCloud, supportsKey, metadata, globalOpts, wg, stdout,
                   exitCode, httpRequests, statCalls, execCalls, keyCalls,
                   keyResult, writes, firstDone>>

\* metadata as one variable of the embedded struct, shared by the detectors
\* that embed SimpleUrlBasedCloud
DetectWithSharedMetadata(i, r, exists) ==
    /\ Running /\ taskPc[i] = "running"
    /\ LET d == Detect(i, r, exists)
       IN  /\ isMyCloud' = [isMyCloud EXCEPT ![i] = d.isMyCloud]
           /\ supportsKey' = [supportsKey EXCEPT ![i] = d.supportsKey]
           /\ metadata' = [j \in Clouds |->
                             IF j = i \/ (i \in UrlBased /\ j \in UrlBased)
                             THEN d.metadata ELSE metadata[j]]
           /\ httpRequests' = httpRequests + d.http
           /\ statCalls' = statCalls + d.stat
           /\ writes' = [writes EXCEPT ![i] = @ + d.assigned]
    /\ taskPc' = [taskPc EXCEPT ![i] = "detected"]
    /\ UNCHANGED <<name, globalOpts, wg, mainPc, idx, stdout, stderrLines,
                   exitCode, execCalls, keyCalls, keyResult, firstDone>>

\* detectEffectiveCloud(wg, cd), first statement: cd.detectEffectiveCloud(),
\* when the environment answers r to its request and exists to its os.Stat
DetectWith(i, r, exists) ==
    /\ Running /\ taskPc[i] = "running"
    /\ LET d == Detect(i, r, exists)
       IN  /\ isMyCloud' = [isMyCloud EXCEPT ![i] = d.isMyCloud]
           /\ supportsKey' = [supportsKey EXCEPT ![i] = d.supportsKey]
           /\ metadata' = [metadata EXCEPT ![i] = d.metadata]
           /\ httpRequests' = httpRequests + d.http
           /\ statCalls' = statCalls + d.stat
           /\ writes' = [writes EXCEPT ![i] = @ + d.assigned]
    /\ taskPc' = [taskPc EXCEPT ![i] = "detected"]
    /\ UNCHANGED <<name, globalOpts, wg, mainPc, idx, stdout, stderrLines,
                   exitCode, execCalls, keyCalls, keyResult, firstDone>>

DetectStep(i) ==
    /\ \E r \in DetectResponses(i), exists \in DetectFiles(i) : DetectWith(i, r, exists)
    /\ UNCHANGED response

\* detectEffectiveCloud(wg, cd), second statement: wg.Done(); a counter that
\* would go below zero makes Done panic
WgDone(i) ==
    /\ Running /\ taskPc[i] = "detected"
    /\ wg' = IF wg > 0 THEN wg - 1 ELSE wg
    /\ exitCode' = IF wg > 0 THEN exitCode ELSE 2
    /\ taskPc' = [taskPc EXCEPT ![i] = IF wg > 0 THEN "done" ELSE "panicked"]
    /\ firstDone' = IF firstDone = 0 /\ wg > 0 THEN i ELSE firstDone
    /\ UNCHANGED <<response, name, isMyCloud, supportsKey, metadata, globalOpts, mainPc, idx,
                   stdout, stderrLines, httpRequests, statCalls,
                   execCalls, keyCalls, keyResult, writes>>

\* a wait that returns as soon as one goroutine has finished
WaitFirst ==
    /\ Running /\ mainPc = "wait"
    /\ wg < Len(cdList)
    /\ mainPc' = "scan"
    /\ idx' = 1
    /\ UNCHANGED <<response, name, isMyCloud, supportsKey, metadata, globalOpts, wg,
                   taskPc, stdout, stderrLines, exitCode, httpRequests, statCalls,
                   execCalls, keyCalls, keyResult, writes, firstDone>>

\* wg.Wait() returns: the counter is zero
Wait ==
    /\ Running /\ mainPc = "wait"
    /\ wg = 0
    /\ mainPc' = "scan"
    /\ idx' = 1
    /\ UNCHANGED <<response, name, isMyCloud, supportsKey, metadata, globalOpts, wg, taskPc,
                   stdout, stderrLines, exitCode, httpRequests, statCalls,
                   execCalls, keyCalls, keyResult, writes, firstDone>>

\* the scan storing the flag it has just read
ScanSkipStoring ==
    /\ Running /\ mainPc = "scan"
    /\ idx <= Len(cdList)
    /\ ~isMyCloud[idx]
    /\ idx' = idx + 1
    /\ writes' = [writes EXCEPT ![idx] = @ + 1]
    /\ UNCHANGED <<response, name, isMyCloud, supportsKey, metadata, globalOpts, wg, mainPc,
                   taskPc, stdout, stderrLines, exitCode, httpRequests, statCalls,
                   execCalls, keyCalls, keyResult, firstDone>>

\* one round of the second loop when cd.isEffectiveCloud() is false
ScanSkip ==
    /\ Running /\ mainPc = "scan"
    /\ idx <= Len(cdList)
    /\ ~isMyCloud[idx]
    /\ idx' = idx + 1
    /\ UNCHANGED <<response, name, isMyCloud, supportsKey, metadata, globalOpts, wg, mainPc,
                   taskPc, stdout, stderrLines, exitCode, httpRequests, statCalls,
                   execCalls, keyCalls, keyResult, writes, firstDone>>

\* the two branches on err swapped
KeyLinesSwapped(asked, res) ==
    IF ~asked \/ res.panic THEN <<>>
    ELSE IF res.err = NoError THEN <<"UNKNOWN">>
    ELSE <<"">>

\* what main prints after the name: nothing without --key, UNKNOWN when getKey
\* returned an error, else the value
KeyLines(asked, res) ==
    IF ~asked \/ res.panic THEN <<>>
    ELSE IF res.err # NoError THEN <<"UNKNOWN">>
    ELSE <<res.val.v>>

\* rc = 1 forgotten after a failed getKey
KeyRcZero(asked, res) == IF res.panic THEN 2 ELSE 0

\* rc when main reaches os.Exit(rc) in the loop (2: the runtime's status on a panic)
KeyRc(asked, res) ==
    IF res.panic THEN 2
    ELSE IF asked /\ res.err # NoError THEN 1
    ELSE 0

\* the body of the if in the second loop, for detector w, to os.Exit(rc)
Report(w) ==
    /\ \E r \in KeyResponses, x \in ExecResults :
         LET key == globalOpts.key
             asked == key # ""
             res == IF asked THEN getKey(w, key, r, x) ELSE NoKeyCall
         IN  /\ stdout' = stdout \o <<name[w]>> \o KeyLines(asked, res)
             /\ stderrLines' = stderrLines
                               + (IF asked /\ res.err # NoError THEN logOutput ELSE 0)
             /\ exitCode' = KeyRc(asked, res)
             /\ httpRequests' = httpRequests + res.http
             /\ execCalls' = execCalls + res.exec
             /\ keyCalls' = IF asked THEN Append(keyCalls, w) ELSE keyCalls
             /\ keyResult' = res
    /\ mainPc' = "exited"
    /\ UNCHANGED <<response, name, isMyCloud, supportsKey, metadata, globalOpts, wg,
                   idx, taskPc, statCalls, writes, firstDone>>

\* a race instead of a join: the detector that finished first wins when it is present
ScanFoundFirstFinisher ==
    /\ Running /\ mainPc = "scan"
    /\ idx <= Len(cdList)
    /\ isMyCloud[idx]
    /\ Report(IF firstDone \in Clouds /\ isMyCloud[firstDone] THEN firstDone ELSE idx)

\* the goroutine that finished first is taken for the present one
ScanFoundRace ==
    /\ Running /\ mainPc = "scan"
    /\ idx <= Len(cdList)
    /\ isMyCloud[idx]
    /\ Report(firstDone)

\* a failed getKey that lets the loop go on to the next present detector
ScanFoundTryNext ==
    /\ Running /\ mainPc = "scan"
    /\ idx <= Len(cdList)
    /\ isMyCloud[idx]
    /\ \/ Report(idx)
       \/ /\ globalOpts.key # ""
          /\ \E r \in KeyResponses, x \in ExecResults :
               LET res == getKey(idx, globalOpts.key, r, x)
               IN  /\ res.err # NoError
                   /\ keyCalls' = Append(keyCalls, idx)
                   /\ keyResult' = res
                   /\ httpRequests' = httpRequests + res.http
                   /\ execCalls' = execCalls + res.exec
          /\ idx' = idx + 1
          /\ UNCHANGED <<response, name, isMyCloud, supportsKey, metadata, globalOpts,
                         wg, mainPc, taskPc, stdout, stderrLines, exitCode, statCalls,
                         writes, firstDone>>

\* the round of the second loop where cd.isEffectiveCloud() is true
ScanFound ==
    /\ Running /\ mainPc = "scan"
    /\ idx <= Len(cdList)
    /\ isMyCloud[idx]
    /\ Report(idx)

\* the exit with the rc of the declaration's neighbour: os.Exit(0)
ScanNoneZero ==
    /\ Running /\ mainPc = "scan"
    /\ idx > Len(cdList)
    /\ stdout' = Append(stdout, "UNKNOWN")
    /\ exitCode' = 0
    /\ mainPc' = "exited"
    /\ UNCHANGED <<response, name, isMyCloud, supportsKey, metadata, globalOpts, wg,
                   idx, taskPc, stderrLines, httpRequests, statCalls, execCalls,
                   keyCalls, keyResult, writes, firstDone>>

\* after the second loop: fmt.Printf("UNKNOWN\n"); os.Exit(1)
ScanNone ==
    /\ Running /\ mainPc = "scan"
    /\ idx > Len(cdList)
    /\ stdout' = Append(stdout, "UNKNOWN")
    /\ exitCode' = 1
    /\ mainPc' = "exited"
    /\ UNCHANGED <<response, name, isMyCloud, supportsKey, metadata, globalOpts, wg, idx,
                   taskPc, stderrLines, httpRequests, statCalls, execCalls,
                   keyCalls, keyResult, writes, firstDone>>

Next ==
    \/ WgAdd
    \/ Launch
    \/ \E i \in Clouds : DetectStep(i)
    \/ \E i \in Clouds : WgDone(i)
    \/ Wait
    \/ ScanSkip
    \/ ScanFound
    \/ ScanNone

Spec == Init /\ [][Next]_vars

(***************************************************************************)
(* What the scheduler and the timeouts guarantee.  Every goroutine that can *)
(* run does run; every GET ends within the client's timeout of one second  *)
(* and os.Stat returns.  exec.Command(cmd, key).Output() in Joyent's getKey *)
(* has no timeout: the round of the scan that runs /usr/sbin/mdata-get is   *)
(* not guaranteed to complete.                                              *)
(***************************************************************************)

\* the round of the scan main is in calls Joyent's getKey
FetchRunsCommand ==
    /\ mainPc = "scan"
    /\ idx <= Len(cdList)
    /\ isMyCloud[idx]
    /\ TypeOf(idx) = "JoyentCloud"
    /\ globalOpts.key # ""

\* the next statement of the goroutine of detector i
GoroutineStep(i) == DetectStep(i) \/ WgDone(i)

\* the steps of main, but for the round that waits for the command
MainStep ==
    \/ WgAdd
    \/ Launch
    \/ Wait
    \/ ScanSkip
    \/ (ScanFound /\ ~FetchRunsCommand)
    \/ ScanNone

SpecFair ==
    /\ Spec
    /\ WF_vars(MainStep)
    /\ \A i \in Clouds : WF_vars(GoroutineStep(i))

(***************************************************************************)
(* A panic in a detection goroutine.  detectEffectiveCloud has no recover  *)
(* and wg.Done() is not deferred: the Go runtime ends the whole program    *)
(* with status 2 when a goroutine panics.                                  *)
(***************************************************************************)

\* cd.detectEffectiveCloud() panics in the goroutine of detector i
Panic(i) ==
    /\ Running /\ taskPc[i] = "running"
    /\ taskPc' = [taskPc EXCEPT ![i] = "panicked"]
    /\ exitCode' = 2
    /\ UNCHANGED <<response, name, isMyCloud, supportsKey, metadata, globalOpts, wg,
                   mainPc, idx, stdout, stderrLines, httpRequests, statCalls,
                   execCalls, keyCalls, keyResult, writes, firstDone>>

NextCrash ==
    \/ Next
    \/ \E i \in Clouds : Panic(i)

SpecCrash == Init /\ [][NextCrash]_vars

(***************************************************************************)
(* One detection against every answer of the environment                   *)
(***************************************************************************)

MaxFields == 2

MemberKeys == {"id", "key1"}
MemberValues == {Str("abc"), Str("value1"), Str(""), Num("5")}
Members == {Member(k, v) : k \in MemberKeys, v \in MemberValues}

\* the member lists of at most MaxFields members
FieldLists == UNION {[1 .. n -> Members] : n \in 0 .. MaxFields}

\* every body an endpoint may send: the objects and the objects cut off
AnyBodies == {Render(f) : f \in FieldLists} \cup {Truncated(f) : f \in FieldLists}

\* the answers to the presence request of detector i, all of them
AnyResponses(i) ==
    CASE TypeOf(i) = "GCECloud" ->
            {NetworkError} \cup {NotFound(f) : f \in Flavors}
            \cup {BrokenBody(f) : f \in Flavors}
            \cup {Ok(f, "root") : f \in Flavors}
      [] TypeOf(i) = "OpenStackCloud" ->
            {NetworkError, NotFound(""), BrokenBody("")}
            \cup {Ok("", b) : b \in AnyBodies}
      [] TypeOf(i) \in {"AWSCloud", "DigitalOceanCloud"} ->
            DetectResponses(i) \cup {BrokenBody("")}
      [] OTHER -> DetectResponses(i)

\* main is in wg.Wait(), every goroutine is started and none has run yet
Launched ==
    /\ name = [i \in Clouds |-> cdList[i].name]
    /\ isMyCloud = [i \in Clouds |-> FALSE]
    /\ supportsKey = [i \in Clouds |-> cdList[i].supportsKey]
    /\ metadata = [i \in Clouds |-> Nil]
    /\ globalOpts \in [key : Keys, verbose : BOOLEAN]
    /\ wg = Len(cdList)
    /\ mainPc = "wait"
    /\ idx = Len(cdList) + 1
    /\ taskPc = [i \in Clouds |-> "running"]
    /\ stdout = <<>>
    /\ stderrLines = Len(cdList) * logOutput
    /\ exitCode = NotExited
    /\ httpRequests = 0
    /\ statCalls = 0
    /\ execCalls = 0
    /\ keyCalls = <<>>
    /\ keyResult = NoKeyCall
    /\ writes = [i \in Clouds |-> 0]
    /\ firstDone = 0
    /\ response = NoResponse

\* the detection of detector i, the first to run, and what it was answered
ProbeStep(i) ==
    /\ \A j \in Clouds : taskPc[j] = "running"
    /\ \E r \in AnyResponses(i), exists \in DetectFiles(i) :
         /\ DetectWith(i, r, exists)
         /\ response' = [of |-> i, r |-> r, exists |-> exists]

NextDetect == \E i \in Clouds : ProbeStep(i)

SpecDetect == Launched /\ [][NextDetect]_vars

(***************************************************************************)
(* The scan and the key fetch on a host where only OpenStack answered      *)
(***************************************************************************)

\* the keys asked of the cached body
AnyKeys == Keys \cup {"id", "missing"}

\* wg.Wait() has returned; of the detections only OpenStack's succeeded, with
\* some body
JoinedOnOpenStack ==
    /\ name = [i \in Clouds |-> cdList[i].name]
    /\ isMyCloud = [i \in Clouds |-> TypeOf(i) = "OpenStackCloud"]
    /\ supportsKey = [i \in Clouds |-> TRUE]
    /\ \E b \in AnyBodies :
         metadata = [i \in Clouds |->
                       IF TypeOf(i) = "OpenStackCloud" THEN Ptr(b) ELSE Nil]
    /\ globalOpts \in [key : AnyKeys, verbose : BOOLEAN]
    /\ wg = 0
    /\ mainPc = "scan"
    /\ idx = 1
    /\ taskPc = [i \in Clouds |-> "done"]
    /\ stdout = <<>>
    /\ stderrLines = Len(cdList) * logOutput
    /\ exitCode = NotExited
    /\ httpRequests = Cardinality(UrlBased) + 1
    /\ statCalls = 2
    /\ execCalls = 0
    /\ keyCalls = <<>>
    /\ keyResult = NoKeyCall
    /\ writes = [i \in Clouds |-> 1]
    /\ firstDone = 1
    /\ response = NoResponse

NextGetKey ==
    \/ ScanSkip
    \/ ScanFound

SpecGetKey == JoinedOnOpenStack /\ [][NextGetKey]_vars

(***************************************************************************)
(* Properties                                                              *)
(***************************************************************************)

\* the detectors that report presence
Present == {i \in Clouds : isMyCloud[i]}

\* the earliest detector of S in registry order
First(S) == CHOOSE i \in S : \A j \in S : i <= j

Last(S) == CHOOSE i \in S : \A j \in S : j <= i

\* main has called os.Exit
Exited == mainPc = "exited"

ProviderNames == {cdList[i].name : i \in Clouds}

\* the GET requests of one whole detection: one per detector that asks the network
DetectionRequests ==
    Cardinality({i \in Clouds : TypeOf(i) \notin {"AzureCloud", "JoyentCloud"}})

\* C1: when two or more detectors report presence, the exit reports the one that
\* is earliest in registry order, whatever the order in which the goroutines
\* finished, and no other provider name is ever on standard output.
C1_RegistryOrderTieBreak ==
    /\ ~Exited => stdout = <<>>
    /\ (Exited /\ Cardinality(Present) >= 2) =>
          /\ Len(stdout) \in {1, 2}
          /\ stdout[1] = cdList[First(Present)].name
          /\ \A k \in 2 .. Len(stdout) : stdout[k] \notin ProviderNames

\* two detectors are present, the later one finished first, the earlier one is
\* reported
C1_Witness ==
    /\ Exited
    /\ Cardinality(Present) >= 2
    /\ firstDone \in Present
    /\ firstDone # First(Present)
    /\ stdout[1] = cdList[First(Present)].name

\* C2: full join, never a race.  main reads isMyCloud (the scan) and exits only
\* once every goroutine has finished and the counter is zero, and a goroutine,
\* once started, only ever moves by its own two statements: nothing cancels it,
\* also when another detector is already present.
C2_FullJoin ==
    /\ [](mainPc \in {"scan", "exited"} =>
            /\ \A i \in Clouds : taskPc[i] = "done"
            /\ wg = 0)
    /\ [](~Running => \A i \in Clouds : taskPc[i] = "done")
    /\ [][\A i \in Clouds :
            taskPc'[i] # taskPc[i] =>
               <<taskPc[i], taskPc'[i]>> \in
                  {<<"unlaunched", "running">>, <<"running", "detected">>,
                   <<"detected", "done">>}]_vars

\* a detector is present and finished, another goroutine still runs, and main
\* is still waiting
C2_Witness ==
    /\ mainPc = "wait"
    /\ \E j \in Clouds : isMyCloud[j] /\ taskPc[j] = "done"
    /\ \E i \in Clouds : taskPc[i] = "running"

\* C3: when exactly one detector reports presence, it is the one reported, in
\* every order of completion.
C3_SinglePresentWins ==
    \A w \in Clouds :
       (Exited /\ Present = {w}) =>
          /\ stdout # <<>>
          /\ stdout[1] = cdList[w].name
          /\ keyCalls \in {<<>>, <<w>>}

\* the only present detector finished after a detector later in the registry
C3_Witness ==
    \E w \in Clouds :
       /\ Exited
       /\ Present = {w}
       /\ firstDone > w
       /\ stdout[1] = cdList[w].name

\* C4: when no detector reports presence, standard output is the one line
\* UNKNOWN, the status is 1, with or without --key, and no key is fetched.
C4_NoneDetected ==
    (Exited /\ Present = {}) =>
       /\ stdout = <<"UNKNOWN">>
       /\ exitCode = 1
       /\ keyCalls = <<>>
       /\ httpRequests = DetectionRequests
       /\ execCalls = 0

C4_Witness ==
    /\ Exited
    /\ Present = {}
    /\ globalOpts.key # ""
    /\ stdout = <<"UNKNOWN">>

C7_PanicContained ==
    \A i \in Clouds :
       taskPc[i] = "panicked" =>
          /\ exitCode # 2
          /\ ~isMyCloud[i]

\* C8: getKey on a detector whose supportsKey is false, and on Azure at any
\* point of the run, returns the error "Cloud does not support keys" for every
\* key and does no I/O.
C8_UnsupportedKeyFetch ==
    /\ \A i \in Clouds :
          (~supportsKey[i] \/ TypeOf(i) = "AzureCloud") =>
             \A k \in AnyKeys \ {""}, r \in KeyResponses, x \in ExecResults :
                getKey(i, k, r, x) = KeyReturn(Nil, "Cloud does not support keys", 0, 0)
    /\ (Exited /\ keyCalls # <<>> /\ TypeOf(keyCalls[1]) = "AzureCloud") =>
          /\ keyResult.err = "Cloud does not support keys"
          /\ keyResult.val = Nil
          /\ httpRequests = DetectionRequests
          /\ execCalls = 0
          /\ stdout = <<"Azure", "UNKNOWN">>

\* main asked Azure for a key
C8_Witness ==
    /\ Exited
    /\ keyCalls = <<IndexOf("AzureCloud")>>
    /\ keyResult.err = "Cloud does not support keys"
    /\ httpRequests = DetectionRequests

\* the objects whose values are all strings
FlatBodies ==
    {Render(f) : f \in {g \in FieldLists : \A n \in DOMAIN g : g[n].val.t = "string"}}

\* the positions of the member names equal to key in a rendered object
Occurrences(body, key) ==
    {p \in 1 .. Len(body) : p % 4 = 2 /\ p < Len(body) /\ body[p].v = key}

\* C9: the OpenStack key fetch makes no request; on a flat object of strings
\* it returns the value of the requested member (the last one of that name),
\* and fails with "No such key" when there is none or its value is empty.
C9_OpenStackGetKey ==
    LET os == IndexOf("OpenStackCloud")
    IN  (Exited /\ globalOpts.key # "") =>
           /\ keyCalls = <<os>>
           /\ httpRequests = DetectionRequests
           /\ execCalls = 0
           /\ metadata[os].v \in FlatBodies =>
                 LET body == metadata[os].v
                     occ == Occurrences(body, globalOpts.key)
                 IN  IF occ = {} \/ body[Last(occ) + 2].v = ""
                     THEN /\ keyResult.val = Nil
                          /\ keyResult.err = "No such key"
                          /\ stdout = <<"OpenStack", "UNKNOWN">>
                          /\ exitCode = 1
                     ELSE /\ keyResult.val = Ptr(body[Last(occ) + 2].v)
                          /\ keyResult.err = NoError
                          /\ stdout = <<"OpenStack", body[Last(occ) + 2].v>>
                          /\ exitCode = 0

\* the example: the body {"id":"abc","key1":"value1"} and the key key1
C9_Witness ==
    /\ Exited
    /\ metadata[IndexOf("OpenStackCloud")]
          = Ptr(Render(<<Member("id", Str("abc")), Member("key1", Str("value1"))>>))
    /\ globalOpts.key = "key1"
    /\ keyCalls = <<IndexOf("OpenStackCloud")>>
    /\ stdout = <<"OpenStack", "value1">>
    /\ httpRequests = DetectionRequests

\* C10: GCE's isMyCloud is true only after a response with status 200 that
\* carries Metadata-Flavor: Google; a 200 with another value, or without the
\* header, leaves it false.
C10_GCEHeaderRequired ==
    LET gce == IndexOf("GCECloud")
    IN  response.of = gce =>
           /\ isMyCloud[gce] =>
                 /\ ~response.r.netErr
                 /\ response.r.status = 200
                 /\ response.r.flavor = "Google"
           /\ (~response.r.netErr /\ response.r.status = 200
               /\ response.r.flavor # "Google") => ~isMyCloud[gce]

\* a 200 without the header
C10_Witness ==
    /\ response.of = IndexOf("GCECloud")
    /\ taskPc[IndexOf("GCECloud")] = "detected"
    /\ response.r = Ok("", "root")
    /\ ~isMyCloud[IndexOf("GCECloud")]


\* what a run shows of itself once the detections and the key fetch have
\* answered: standard output and the exit status, as determined by the detection
\* results, the requested key and the result of the fetch, and by nothing else
OutcomeOf(present, key, res) ==
    IF present = {}
    THEN [stdout |-> <<"UNKNOWN">>, exitCode |-> 1]
    ELSE [stdout |-> <<cdList[First(present)].name>>
                     \o (IF key = "" THEN <<>>
                         ELSE IF res.err # NoError THEN <<"UNKNOWN">>
                         ELSE <<res.val.v>>),
          exitCode |-> IF key # "" /\ res.err # NoError THEN 1 ELSE 0]

\* C11: --verbose affects neither standard output nor the exit status.  At every
\* point of a run both are determined by the detection results, the key and the
\* result of the key fetch, the same with and without --verbose: nothing is
\* printed and no status is set before the exit, and at the exit they are
\* OutcomeOf those three.  The flag only adds lines to standard error; without
\* it standard error stays empty.
C11_VerboseNoEffect ==
    /\ ~Exited => stdout = <<>> /\ exitCode = NotExited
    /\ Exited =>
          /\ stdout = OutcomeOf(Present, globalOpts.key, keyResult).stdout
          /\ exitCode = OutcomeOf(Present, globalOpts.key, keyResult).exitCode
    /\ ~globalOpts.verbose => stderrLines = 0

\* a verbose run that logged every candidate and the failed fetch, and whose
\* standard output is the two lines of the quiet run
C11_Witness ==
    /\ Exited
    /\ globalOpts.verbose
    /\ stderrLines = Len(cdList) + 1
    /\ stdout = <<"AWS", "UNKNOWN">>
    /\ exitCode = 1


\* the output strings of the README's table
ReadmeNames == {"AWS", "GCE", "Azure", "OpenStack", "DigitalOcean"}

\* C12: the first line on standard output is UNKNOWN or one of the output
\* strings of the README's table; a host detected as Digital Ocean prints
\* DigitalOcean.
C12_FirstLineDocumented ==
    /\ stdout # <<>> => stdout[1] \in ReadmeNames \cup {"UNKNOWN"}
    /\ (Exited /\ Present # {}
        /\ TypeOf(First(Present)) = "DigitalOceanCloud") => stdout[1] = "DigitalOcean"


\* the presence check of detector i succeeded on the recorded answer: the GET
\* came back with status 200 and a body that could be read (for GCE also with
\* the header Metadata-Flavor: Google), or os.Stat found the marker
CheckSucceeded(i) ==
    IF TypeOf(i) \in {"AzureCloud", "JoyentCloud"} THEN response.exists
    ELSE /\ ~response.r.netErr
         /\ response.r.status = 200
         /\ ~response.r.readErr
         /\ TypeOf(i) = "GCECloud" => response.r.flavor = "Google"

\* C13: a failed presence check (no connection or a timeout, a status other
\* than 200, an unreadable body, no marker file) stays inside the detector:
\* after its detection isMyCloud is true exactly when the check succeeded, the
\* process is still running, and the goroutine stands before its wg.Done() with
\* the counter positive, so the join is neither aborted nor blocked.
C13_FailureRecovered ==
    \A i \in Clouds :
       response.of = i =>
          /\ isMyCloud[i] <=> CheckSucceeded(i)
          /\ taskPc[i] = "detected"
          /\ Running
          /\ wg > 0
          /\ ENABLED WgDone(i)

\* the AWS endpoint answered 404: AWS is absent and its goroutine goes on
C13_Witness ==
    /\ response.of = IndexOf("AWSCloud")
    /\ response.r = NotFound("")
    /\ ~isMyCloud[IndexOf("AWSCloud")]
    /\ metadata[IndexOf("AWSCloud")] = Nil
    /\ taskPc[IndexOf("AWSCloud")] = "detected"


\* C14: supportsKey and name are fixed at construction: at every point of the
\* run, also after the detections, supportsKeys() and cloudDescription() of
\* every detector return what they returned when setupClouds built it.
C14_FixedAtConstruction ==
    /\ name = [i \in Clouds |-> cdList[i].name]
    /\ supportsKey = [i \in Clouds |-> cdList[i].supportsKey]


\* C15 as stated: isMyCloud of every detector is assigned exactly once in a
\* run: never more than once, and once when its detection has run.
C15_AssignedExactlyOnce ==
    \A i \in Clouds :
       /\ writes[i] <= 1
       /\ taskPc[i] \in {"detected", "done"} => writes[i] = 1

\* the assignments one detection makes to isMyCloud: Azure and Joyent store
\* false first and true after it when os.Stat finds the marker
AssignmentsOf(i) ==
    IF TypeOf(i) \in {"AzureCloud", "JoyentCloud"} /\ isMyCloud[i] THEN 2 ELSE 1

\* C15, amended: isMyCloud is false until the detector's own detection has run;
\* it is assigned only inside that one call of detectEffectiveCloud, once by the
\* URL-based detectors and GCE, once or twice (false, then true) by Azure and
\* Joyent, so that its value changes at most once; after the call has returned
\* nothing assigns it again, neither the scan nor the key fetch.
C15_AssignedByOwnDetectionOnly ==
    /\ [](\A i \in Clouds :
            IF taskPc[i] \in {"detected", "done"}
            THEN writes[i] = AssignmentsOf(i)
            ELSE writes[i] = 0 /\ ~isMyCloud[i])
    /\ [][\A i \in Clouds :
            (writes'[i] # writes[i] \/ isMyCloud'[i] # isMyCloud[i]) =>
               /\ taskPc[i] = "running"
               /\ taskPc'[i] = "detected"]_vars

\* Azure's marker file exists: its detection assigned twice, AWS's once, and the
\* scan and the key fetch have run since
C15_Witness ==
    /\ Exited
    /\ keyCalls # <<>>
    /\ isMyCloud[IndexOf("AzureCloud")]
    /\ writes[IndexOf("AzureCloud")] = 2
    /\ writes[IndexOf("AWSCloud")] = 1


\* the fields of detector i
FieldsOf(i) == <<name[i], isMyCloud[i], supportsKey[i], metadata[i]>>

FieldsOfNext(i) == <<name'[i], isMyCloud'[i], supportsKey'[i], metadata'[i]>>

\* C16: the detectors share no mutable state.  The detection of detector i
\* leaves the fields of every other detector as they are; a detector's fields
\* change in no step but its own detection, so no two goroutines write the same
\* variable; and main reads isMyCloud in its scan only when every goroutine has
\* finished, after which no field changes any more.
C16_NoSharedState ==
    /\ [][\A i \in Clouds :
            (taskPc[i] = "running" /\ taskPc'[i] = "detected") =>
               \A j \in Clouds \ {i} : FieldsOfNext(j) = FieldsOf(j)]_vars
    /\ [][\A j \in Clouds :
            FieldsOfNext(j) # FieldsOf(j) =>
               (taskPc[j] = "running" /\ taskPc'[j] = "detected"
                /\ mainPc \in {"launch", "wait"})]_vars
    /\ [][(mainPc \in {"scan", "exited"}) =>
            \A j \in Clouds : taskPc[j] = "done" /\ FieldsOfNext(j) = FieldsOf(j)]_vars

\* while main is still starting goroutines, AWS's detection has stored a body
\* and OpenStack's has failed, each in its own fields
C16_Witness ==
    /\ mainPc = "launch"
    /\ taskPc[IndexOf("AWSCloud")] = "detected"
    /\ isMyCloud[IndexOf("AWSCloud")]
    /\ metadata[IndexOf("AWSCloud")] = Ptr("i-0abc")
    /\ taskPc[IndexOf("OpenStackCloud")] = "detected"
    /\ ~isMyCloud[IndexOf("OpenStackCloud")]
    /\ metadata[IndexOf("OpenStackCloud")] = Nil


\* C17: getKey is called at most once in a run: only by main after wg.Wait()
\* has returned, only on the first present detector in registry order and only
\* with a key that is not empty; a later present detector is never asked, also
\* when the call failed, and the run does the I/O of one fetch at most.
C17_KeyFetchOnce ==
    /\ Len(keyCalls) <= 1
    /\ keyCalls # <<>> =>
          /\ Exited
          /\ globalOpts.key # ""
          /\ wg = 0
          /\ \A i \in Clouds : taskPc[i] = "done"
          /\ Present # {}
          /\ keyCalls = <<First(Present)>>
    /\ (Exited /\ Present # {} /\ globalOpts.key # "") => keyCalls # <<>>
    /\ keyCalls = <<>> =>
          /\ keyResult = NoKeyCall
          /\ httpRequests <= DetectionRequests
          /\ execCalls = 0
    /\ httpRequests + execCalls <= DetectionRequests + 1

\* two detectors are present, the fetch on the first one failed, and the second
\* one was not asked
C17_Witness ==
    /\ Exited
    /\ Cardinality(Present) >= 2
    /\ keyResult.err # NoError
    /\ keyCalls = <<First(Present)>>
    /\ stdout = <<cdList[First(Present)].name, "UNKNOWN">>


\* C18: for the detectors that embed SimpleUrlBasedCloud the cached body is
\* there (metadata is not nil) exactly when isMyCloud is true, before and after
\* the detection; so OpenStack's getKey, called only on a present detector,
\* never dereferences a nil metadata: no run ends in a panic.
C18_MetadataIffPresent ==
    /\ \A i \in UrlBased : ~metadata[i].nil <=> isMyCloud[i]
    /\ ~keyResult.panic
    /\ exitCode # 2
    /\ \A i \in Clouds : taskPc[i] # "panicked"
    /\ (keyCalls # <<>> /\ TypeOf(keyCalls[1]) = "OpenStackCloud") =>
          /\ ~metadata[keyCalls[1]].nil
          /\ keyResult.http = 0

\* OpenStack won and its getKey read the cached body, while AWS's detection had
\* failed and left no body
C18_Witness ==
    /\ Exited
    /\ keyCalls = <<IndexOf("OpenStackCloud")>>
    /\ ~metadata[IndexOf("OpenStackCloud")].nil
    /\ keyResult.err = NoError
    /\ ~isMyCloud[IndexOf("AWSCloud")]
    /\ metadata[IndexOf("AWSCloud")] = Nil


\* the goroutines started so far, those whose detection has returned, and
\* those that have called wg.Done()
Started == {i \in Clouds : taskPc[i] # "unlaunched"}

Returned == {i \in Clouds : taskPc[i] \in {"detected", "done"}}

Finished == {i \in Clouds : taskPc[i] = "done"}

\* the four outcomes of a run, numbered; the set of those the exit state shows
OutcomesShown ==
    {n \in 1 .. 4 :
       CASE n = 1 -> /\ Len(stdout) = 1 /\ stdout[1] \in ProviderNames
                     /\ exitCode = 0
         [] n = 2 -> /\ Len(stdout) = 2 /\ stdout[1] \in ProviderNames
                     /\ keyResult.err = NoError /\ stdout[2] = keyResult.val.v
                     /\ exitCode = 0
         [] n = 3 -> /\ Len(stdout) = 2 /\ stdout[1] \in ProviderNames
                     /\ stdout[2] = "UNKNOWN"
                     /\ exitCode = 1
         [] n = 4 -> /\ stdout = <<"UNKNOWN">>
                     /\ exitCode = 1}

\* the counting of a run: one goroutine per detector, one detection per
\* goroutine (one GET or one os.Stat each, none repeated), one wg.Done() per
\* goroutine; the counter is never negative and is zero exactly when all have
\* finished; an exit shows exactly one of the four outcomes
BarrierAccounting ==
    /\ wg >= 0
    /\ mainPc = "add" => Started = {} /\ wg = 0
    /\ mainPc = "launch" => Started = 1 .. (idx - 1)
    /\ mainPc \in {"wait", "scan", "exited"} => Started = Clouds
    /\ mainPc # "add" =>
          /\ wg = Len(cdList) - Cardinality(Finished)
          /\ wg = 0 <=> Finished = Clouds
    /\ ~Exited =>
          /\ httpRequests = Cardinality(Returned \cap {i \in Clouds : Detect(i, NetworkError, FALSE).http = 1})
          /\ statCalls = Cardinality(Returned \cap {i \in Clouds : Detect(i, NetworkError, FALSE).stat = 1})
    /\ Exited => Cardinality(OutcomesShown) = 1

\* C19: one goroutine is started per detector, each runs its detection once and
\* signals the WaitGroup once, the counter never goes below zero and is zero
\* exactly when all have finished; and, every detection returning, the run
\* comes to its exit with exactly one of the four outcomes.
C19_CountedAndTerminates ==
    /\ []BarrierAccounting
    /\ <>Exited

====
